---- MODULE Spec2Model ----
(***************************************************************************)
(* A model of src/databricks_bundle_executor.py: credential resolution,    *)
(* the clone, the working directory, the two-strategy bundle chain         *)
(* (execute_bundle_operation falling back to                               *)
(* download_and_execute_bundle_operation) and the cleanup of the temporary *)
(* directories, as one sequential state machine per invocation.            *)
(*                                                                         *)
(* Python values: None and '' are both falsy and are both written "" (a    *)
(* host: <<>>); a dict is a function whose DOMAIN is its key set; a bool   *)
(* returned by a function that has not returned yet is "none".             *)
(***************************************************************************)
EXTENDS Integers, Sequences, FiniteSets, TLC

VARIABLES
    pc,                 \* position of the invocation in the script
    operation,          \* args.operation
    yaml_path,          \* args.yaml_path
    git_url,            \* args.git_url
    db_config,          \* parse_connection_config(args.databricks_connection_config)
    databricks_host,    \* args.databricks_host
    databricks_token,   \* args.databricks_token
    env_vars,           \* result of setup_databricks_authentication
    fs,                 \* the temporary directories that exist on disk
    work_dir,           \* the directory the native bundle command runs in
    cli_path,           \* the CLI chosen by execute_bundle_operation
    clone_ret,          \* return value of execute_git_clone
    native_failure,     \* how the native strategy failed ("none": it has not)
    dl_failure,         \* how the downloaded-CLI strategy failed ("none": it has not)
    dl_pending,         \* what download_and_execute_bundle_operation's try block ended with
    dl_ret,             \* return value of download_and_execute_bundle_operation
    ebo_ret,            \* return value of execute_bundle_operation
    main_pending,       \* what the main try block ended with
    exit_status,        \* process exit status (-1: still running)
    attempts,           \* strategies started, in order (their first log line)
    issued,             \* bundle commands run, in order
    rmtree_calls,       \* shutil.rmtree calls per directory
    rmtree_raised,      \* directories whose rmtree raised
    created,            \* directories created by tempfile.mkdtemp, in order
    databricks_connection_config,   \* args.databricks_connection_config
    git_connection_config,          \* args.git_connection_config
    git_token,          \* args.git_token, then the token the clone uses
    descriptor_state,   \* what the clone holds at yaml_path
    clone_runs,         \* times the clone command was run
    target_env,         \* args.target_env
    timeout,            \* args.timeout
    clone_url,          \* the URL the clone command was given
    clone_log,          \* what execute_git_clone logged: the text put into each message
    v_connected,        \* workspace/list answered 200 in the current validation
    l_pc,               \* git_clone_and_list.main: position of each invocation
    l_dest,             \* git_clone_and_list.main: dest_dir of each invocation
    l_fs,               \* git_clone_and_list.main: who made each directory under /tmp
    v_pc,               \* position inside execute_bundle_validation
    descriptor,         \* yaml_content, as yaml.safe_load sees it
    platform_jobs,      \* the jobs on the target platform
    v_job,              \* the test job the current validation created
    v_ret,              \* return value of execute_bundle_validation
    v_runs              \* calls of execute_bundle_validation so far

vars == <<pc, operation, yaml_path, git_url, db_config, databricks_host,
          databricks_token, env_vars, fs, work_dir, cli_path, clone_ret,
          native_failure, dl_failure, dl_pending, dl_ret, ebo_ret, main_pending, exit_status, attempts,
          issued, rmtree_calls, rmtree_raised, created,
          databricks_connection_config, git_connection_config, git_token,
          descriptor_state, clone_runs, v_pc, descriptor, platform_jobs, v_job, v_ret,
          v_runs, target_env, timeout, clone_url, clone_log, v_connected, l_pc, l_dest,
          l_fs>>

(***************************************************************************)
(* Strings that the code edits are sequences of characters.                *)
(***************************************************************************)
HTTPS == <<"h", "t", "t", "p", "s", ":", "/", "/">>
HTTP == <<"h", "t", "t", "p", ":", "/", "/">>
HostName == <<"d", "b", ".", "c">>

\* str.replace(pat, ''): every non-overlapping occurrence, left to right.
RECURSIVE Remove(_, _)
Remove(s, pat) ==
    IF Len(s) < Len(pat) THEN s
    ELSE IF SubSeq(s, 1, Len(pat)) = pat
         THEN Remove(SubSeq(s, Len(pat) + 1, Len(s)), pat)
         ELSE <<Head(s)>> \o Remove(Tail(s), pat)

\* str.replace(pat, by): every non-overlapping occurrence, left to right.
RECURSIVE Replace(_, _, _)
Replace(s, pat, by) ==
    IF Len(s) < Len(pat) THEN s
    ELSE IF SubSeq(s, 1, Len(pat)) = pat
         THEN by \o Replace(SubSeq(s, Len(pat) + 1, Len(s)), pat, by)
         ELSE <<Head(s)>> \o Replace(Tail(s), pat, by)

\* pat in s
Contains(s, pat) ==
    \E i \in 1..(Len(s) - Len(pat) + 1) : SubSeq(s, i, i + Len(pat) - 1) = pat

\* a or b, on Python strings.
Or(a, b) == IF Len(a) > 0 THEN a ELSE b
OrStr(a, b) == IF a # "" THEN a ELSE b

EmptyDict == <<>>

(***************************************************************************)
(* Dicts.  dict.get(k) is None for a missing key.                          *)
(***************************************************************************)
Get(d, k) == IF k \in DOMAIN d THEN d[k] ELSE ""
GetHost(d, k) == IF k \in DOMAIN d THEN d[k] ELSE <<>>
Entry(k, v) == IF v = "" THEN EmptyDict ELSE (k :> v)
HostEntry(k, v) == IF Len(v) = 0 THEN EmptyDict ELSE (k :> v)

(***************************************************************************)
(* setup_databricks_authentication (lines 80-127).                         *)
(***************************************************************************)
\* line 95: the host, the direct argument first.
ResolveHost(cfg, host_arg) ==
    Or(host_arg, Or(GetHost(cfg, "workspace_url"), GetHost(cfg, "databricks_instance_url")))

\* line 97: host.replace('https://', '').replace('http://', '')
NormalizeHost(host) == Remove(Remove(host, HTTPS), HTTP)

\* AuthType with the discriminator never read.
AuthType_DiscriminatorIgnored(cfg) == "personal_access_token"

\* line 101: db_config.get('authentication_type', 'personal_access_token')
AuthType(cfg) ==
    IF "authentication_type" \in DOMAIN cfg THEN cfg["authentication_type"]
    ELSE "personal_access_token"

\* ResolveToken with the 'token' key of the config never read.
ResolveToken_TokenKeyIgnored(cfg, token_arg) ==
    OrStr(token_arg, Get(cfg, "personal_access_token"))

\* line 118: the token, the direct argument first.
ResolveToken(cfg, token_arg) ==
    OrStr(token_arg, OrStr(Get(cfg, "personal_access_token"), Get(cfg, "token")))

\* setup_databricks_authentication with an incomplete service principal
\* falling through to the token branch.
setup_databricks_authentication_DegradesToToken(cfg, host_arg, token_arg) ==
    LET host == ResolveHost(cfg, host_arg)
        host_vars == IF Len(host) > 0
                     THEN "DATABRICKS_HOST" :> NormalizeHost(host)
                     ELSE EmptyDict
        token == ResolveToken(cfg, token_arg)
    IN  IF AuthType(cfg) = "service_principal"
           /\ Get(cfg, "client_id") # "" /\ Get(cfg, "secret") # ""
        THEN host_vars @@ ("DATABRICKS_CLIENT_ID" :> cfg["client_id"])
                       @@ ("DATABRICKS_CLIENT_SECRET" :> cfg["secret"])
        ELSE IF token # ""
             THEN host_vars @@ ("DATABRICKS_TOKEN" :> token)
             ELSE EmptyDict

setup_databricks_authentication(cfg, host_arg, token_arg) ==
    LET host == ResolveHost(cfg, host_arg)
        host_vars == IF Len(host) > 0
                     THEN "DATABRICKS_HOST" :> NormalizeHost(host)
                     ELSE EmptyDict
    IN  IF AuthType(cfg) = "service_principal"
        THEN IF Get(cfg, "client_id") # "" /\ Get(cfg, "secret") # ""
             THEN host_vars @@ ("DATABRICKS_CLIENT_ID" :> cfg["client_id"])
                            @@ ("DATABRICKS_CLIENT_SECRET" :> cfg["secret"])
             ELSE EmptyDict
        ELSE LET token == ResolveToken(cfg, token_arg)
             IN  IF token # ""
                 THEN host_vars @@ ("DATABRICKS_TOKEN" :> token)
                 ELSE EmptyDict

(***************************************************************************)
(* Inputs.                                                                 *)
(***************************************************************************)
Operations == {"validate", "deploy", "destroy", "run"}

AuthTypes == {"", "personal_access_token", "service_principal"}

DirectTokens == {"", "tok-arg"}

HostInputs == {<<>>, HostName, HTTPS \o HostName, HTTP \o HostName}

DbConfig(a, pat, tok, cid, sec, ws, inst) ==
    Entry("authentication_type", a) @@ Entry("personal_access_token", pat)
    @@ Entry("token", tok) @@ Entry("client_id", cid) @@ Entry("secret", sec)
    @@ HostEntry("workspace_url", ws) @@ HostEntry("databricks_instance_url", inst)

\* Every shape of connection config the resolver distinguishes.
DbConfigs ==
    { DbConfig(a, pat, tok, cid, sec, ws, inst) :
        a \in AuthTypes, pat \in {"", "tok-pat"}, tok \in {"", "tok-cfg"},
        cid \in {"", "client-1"}, sec \in {"", "secret-1"},
        ws \in {<<>>, HTTPS \o HostName}, inst \in {<<>>, HostName} }

\* The configs the whole-invocation specification runs with.
MainDbConfigs ==
    { EmptyDict,
      DbConfig("service_principal", "", "", "client-1", "secret-1", <<>>, HostName),
      DbConfig("service_principal", "", "tok-cfg", "client-1", "", HTTPS \o HostName, <<>>) }

\* A path is its sequence of segments; an absolute path starts with "/".
YamlPaths == { <<>>, <<"databricks.yml">>, <<"bundles", "databricks.yml">>,
               <<"/", "opt", "databricks.yml">>, <<"..", "other", "databricks.yml">> }
\* The paths the whole-invocation specification runs with.
MainYamlPaths == { <<>>, <<"databricks.yml">>, <<"bundles", "databricks.yml">> }

\* The hosts execute_git_clone looks for (lines 151, 155), and a repository path.
GitHub == <<"g", "i", "t", "h", "u", "b", ".", "c", "o", "m">>
GitLab == <<"g", "i", "t", "l", "a", "b", ".", "c", "o", "m">>
RepoPath == <<"/", "r">>
GitHubUrl == HTTPS \o GitHub \o RepoPath

GitUrls == {<<>>, GitHubUrl}

\* A --..._connection_config argument: not passed, a text json.loads rejects, or
\* the text of a JSON object, written as the object it denotes.
NoBlob == [kind |-> "none", value |-> EmptyDict]
Malformed == [kind |-> "malformed", value |-> EmptyDict]
Json(cfg) == [kind |-> "json", value |-> cfg]

GitTokens == {"", "git-arg"}
GitConfigs == { Entry("token", "git-cfg"), Entry("personal_access_token", "git-pat") }

\* What the clone holds at yaml_path: the parent directory is missing, the
\* directory is there without the file, or the file is there.  A path with no
\* directory part names a file of the clone's root, which always exists.
DescriptorStates == {"absent_dir", "absent_file", "present"}
PossibleDescriptor(path, state) == Len(path) <= 1 => state # "absent_dir"

\* parse_connection_config (lines 71-78)
parse_connection_config(config_json) ==
    IF config_json.kind = "json" THEN config_json.value ELSE EmptyDict

(***************************************************************************)
(* Paths and directories.                                                  *)
(***************************************************************************)
\* tempfile.mkdtemp(prefix=f"bundle_{operation}_") (line 1028)
TempDir == <<"/", "tmp", "bundle_op_XXXXXXXX">>
\* tempfile.mkdtemp(prefix="databricks_cli_") (line 579)
TempCliDir == <<"/", "tmp", "databricks_cli_XXXXXXXX">>

\* os.path.dirname, os.path.join
dirname(p) == IF Len(p) = 0 THEN <<>> ELSE SubSeq(p, 1, Len(p) - 1)
join(a, b) == IF Len(b) > 0 /\ b[1] = "/" THEN b ELSE a \o b

\* lines 1038-1048; exists is os.path.exists(work_dir).
ResolveWorkDir(temp_dir, path, exists) ==
    LET yaml_dir == dirname(path)
    IN  IF Len(yaml_dir) > 0
        THEN IF exists THEN join(temp_dir, yaml_dir) ELSE temp_dir
        ELSE temp_dir

(***************************************************************************)
(* inspect_cli_environment (lines 280-313) and the choice of a CLI         *)
(* (lines 442-460).  cli_paths is an insertion-ordered dict: a sequence of *)
(* <<key, status>>.                                                        *)
(***************************************************************************)
DirectCliPaths == <<"databricks", "/usr/local/bin/databricks", "/usr/bin/databricks",
                    "/opt/databricks/bin/databricks">>
WhichPath == "/usr/local/sbin/databricks"

\* What probing one path can give (lines 303-313) and what which can (293-300).
ProbeResults == {"found", "not_found", "error"}
WhichResults == {"path", "not found", "error"}
CliEnvironments == [direct : [1..Len(DirectCliPaths) -> ProbeResults], which : WhichResults]

inspect_cli_environment(environment) ==
    [i \in 1..Len(DirectCliPaths) |-> <<DirectCliPaths[i], environment.direct[i]>>]
    \o << CASE environment.which = "path" -> <<"which_databricks", WhichPath>>
            [] environment.which = "not found" -> <<"which_databricks", "not found">>
            [] OTHER -> <<"which databricks", "error">> >>

\* One iteration of the loop of lines 447-460: the CLI this entry selects, or "".
CliOfEntry(entry) ==
    IF entry[1] = "which_databricks" /\ entry[2] # "not found" THEN entry[2]
    ELSE IF entry[2] = "found" /\ entry[1] # "which_databricks" THEN entry[1]
    ELSE ""

\* The loop: the first entry that selects a CLI wins (break).
RECURSIVE SelectCli(_)
SelectCli(cli_paths) ==
    IF Len(cli_paths) = 0 THEN ""
    ELSE IF CliOfEntry(Head(cli_paths)) # "" THEN CliOfEntry(Head(cli_paths))
    ELSE SelectCli(Tail(cli_paths))

\* BundleCmd with the operation fixed instead of the one requested.
BundleCmd_AlwaysValidate(cli, op) == <<cli, "bundle", "validate">>

\* bundle_cmd = [cli_path, "bundle", operation] (lines 491, 676)
BundleCmd(cli, op) == <<cli, "bundle", op>>

\* lines 607-623: the binary found in the extracted directory, or "".
PossibleNames == <<"databricks", "databricks_cli_0.264.2_linux_amd64",
                   "databricks_cli_0.264.2_darwin_amd64">>
LocateBinary(files) ==
    IF \E i \in 1..Len(PossibleNames) : PossibleNames[i] \in files
    THEN PossibleNames[CHOOSE i \in 1..Len(PossibleNames) :
                         /\ PossibleNames[i] \in files
                         /\ \A j \in 1..(i - 1) : PossibleNames[j] \notin files]
    ELSE ""

(***************************************************************************)
(* The invocation (lines 968-1063).                                        *)
(***************************************************************************)
Inputs == <<operation, yaml_path, git_url, db_config, databricks_host, databricks_token>>

\* The arguments and the state of the clone that no step of the invocation changes.
Args == <<databricks_connection_config, git_connection_config, descriptor_state,
          target_env, timeout>>

\* The state of git_clone_and_list.py, a script of its own.
Listing == <<l_pc, l_dest, l_fs>>

\* What the clone step leaves behind.
CloneRun == <<clone_runs, clone_url, clone_log>>

\* The state of execute_bundle_validation, which the invocation never calls.
Validation == <<v_pc, descriptor, platform_jobs, v_job, v_ret, v_runs, v_connected>>

\* No step of the invocation has run yet.
NothingRun ==
    /\ fs = {}
    /\ work_dir = <<>>
    /\ cli_path = ""
    /\ clone_ret = "none"
    /\ native_failure = "none"
    /\ dl_failure = "none"
    /\ dl_pending = "none"
    /\ dl_ret = "none"
    /\ ebo_ret = "none"
    /\ main_pending = "none"
    /\ exit_status = -1
    /\ attempts = <<>>
    /\ issued = <<>>
    /\ rmtree_calls = [d \in {TempDir, TempCliDir} |-> 0]
    /\ rmtree_raised = {}
    /\ created = <<>>
    /\ clone_runs = 0
    /\ clone_url = <<>>
    /\ clone_log = <<>>

\* Nothing has run yet.
Fresh ==
    /\ env_vars = EmptyDict
    /\ NothingRun

\* execute_bundle_validation is not running.
NoJob == [name |-> "", run |-> 0]
ValidationIdle ==
    /\ v_pc = "v_idle"
    /\ descriptor = [kind |-> "none", sections |-> {}, jobs |-> <<>>]
    /\ platform_jobs = {}
    /\ v_job = NoJob
    /\ v_ret = "none"
    /\ v_runs = 0
    /\ v_connected = FALSE

\* git_clone_and_list.py is not running.
ListingIdle ==
    /\ l_pc = <<>>
    /\ l_dest = <<>>
    /\ l_fs = <<>>

\* --target_env and --timeout left at their defaults (lines 47, 60).
DefaultTimeout == 600
DefaultOptions ==
    /\ target_env = "dev"
    /\ timeout = DefaultTimeout

Init ==
    /\ pc = "m_parse"
    /\ operation \in Operations
    /\ yaml_path \in MainYamlPaths
    /\ git_url \in GitUrls
    /\ db_config = EmptyDict
    /\ databricks_connection_config \in {Json(cfg) : cfg \in MainDbConfigs}
    /\ git_connection_config = NoBlob
    /\ git_token = ""
    /\ descriptor_state \in {"absent_dir", "present"}
    /\ PossibleDescriptor(yaml_path, descriptor_state)
    /\ databricks_host = HTTPS \o HostName
    /\ databricks_token \in DirectTokens
    /\ DefaultOptions
    /\ Fresh
    /\ ValidationIdle
    /\ ListingIdle

\* sys.exit(status), or an uncaught exception, outside the try block of line 1031.
ExitNow(status) ==
    /\ exit_status' = status
    /\ pc' = "exited"

\* MainParseConfigs with a blob that json.loads rejects ending the invocation.
MainParseConfigs_MalformedFatal ==
    /\ pc = "m_parse"
    /\ LET git_config == parse_connection_config(git_connection_config)
           rejected == \/ git_connection_config.kind = "malformed"
                       \/ databricks_connection_config.kind = "malformed"
       IN  /\ git_token' =
                IF git_token = "" /\ Get(git_config, "token") # ""
                THEN git_config["token"]
                ELSE IF git_token = "" /\ Get(git_config, "personal_access_token") # ""
                     THEN git_config["personal_access_token"]
                     ELSE git_token
           /\ IF rejected THEN ExitNow(1) ELSE pc' = "m_auth" /\ UNCHANGED exit_status
    /\ db_config' = parse_connection_config(databricks_connection_config)
    /\ UNCHANGED <<operation, yaml_path, git_url, databricks_host, databricks_token, Args,
                   Validation, Listing, CloneRun, env_vars, fs, work_dir, cli_path, clone_ret,
                   native_failure, dl_failure, dl_pending, dl_ret, ebo_ret, main_pending,
                   attempts, issued, rmtree_calls, rmtree_raised, created>>

\* lines 992-1010
MainParseConfigs ==
    /\ pc = "m_parse"
    /\ LET git_config == parse_connection_config(git_connection_config)
       IN  git_token' =
             IF git_token = "" /\ Get(git_config, "token") # ""
             THEN git_config["token"]
             ELSE IF git_token = "" /\ Get(git_config, "personal_access_token") # ""
                  THEN git_config["personal_access_token"]
                  ELSE git_token
    /\ db_config' = parse_connection_config(databricks_connection_config)
    /\ pc' = "m_auth"
    /\ UNCHANGED <<operation, yaml_path, git_url, databricks_host, databricks_token, Args,
                   Validation, Listing, CloneRun, env_vars, fs, work_dir, cli_path, clone_ret,
                   native_failure, dl_failure, dl_pending, dl_ret, ebo_ret, main_pending,
                   exit_status, attempts, issued, rmtree_calls, rmtree_raised, created>>

\* MainSetupAuth with the empty result not checked.
MainSetupAuth_FailureIgnored ==
    /\ pc = "m_auth"
    /\ env_vars' = setup_databricks_authentication(db_config, databricks_host, databricks_token)
    /\ pc' = "m_params"
    /\ UNCHANGED <<Inputs, Args, Validation, Listing, git_token, CloneRun, fs, work_dir, cli_path,
                   clone_ret, native_failure, dl_failure, dl_pending, dl_ret, ebo_ret,
                   main_pending, exit_status, attempts, issued, rmtree_calls,
                   rmtree_raised, created>>

\* lines 1012-1016
MainSetupAuth ==
    /\ pc = "m_auth"
    /\ env_vars' = setup_databricks_authentication(db_config, databricks_host, databricks_token)
    /\ IF DOMAIN env_vars' = {}
       THEN ExitNow(1)
       ELSE pc' = "m_params" /\ UNCHANGED exit_status
    /\ UNCHANGED <<Inputs, Args, Validation, Listing, git_token, CloneRun, fs, work_dir, cli_path, clone_ret, native_failure, dl_failure,
                   dl_pending, dl_ret, ebo_ret, main_pending, attempts, issued,
                   rmtree_calls, rmtree_raised, created>>

\* lines 1018-1025
MainCheckParams ==
    /\ pc = "m_params"
    /\ IF Len(git_url) = 0 \/ Len(yaml_path) = 0
       THEN ExitNow(1)
       ELSE pc' = "m_mkdtemp" /\ UNCHANGED exit_status
    /\ UNCHANGED <<Inputs, Args, Validation, Listing, git_token, CloneRun, env_vars, fs, work_dir, cli_path, clone_ret, native_failure,
                   dl_failure, dl_pending, dl_ret, ebo_ret, main_pending, attempts, issued,
                   rmtree_calls, rmtree_raised, created>>

\* line 1028; mkdtemp raising is an uncaught exception before the try block.
MainMkdtemp ==
    /\ pc = "m_mkdtemp"
    /\ \E made \in BOOLEAN :
         IF made
         THEN /\ fs' = fs \cup {TempDir}
              /\ created' = Append(created, TempDir)
              /\ pc' = "m_clone"
              /\ UNCHANGED exit_status
         ELSE /\ ExitNow(1)
              /\ UNCHANGED <<fs, created>>
    /\ UNCHANGED <<Inputs, Args, Validation, Listing, git_token, CloneRun, env_vars, work_dir, cli_path, clone_ret, native_failure,
                   dl_failure, dl_pending, dl_ret, ebo_ret, main_pending, attempts, issued,
                   rmtree_calls, rmtree_raised>>

\* lines 148-162: the URL given to git; the token is one element of the string.
AuthenticatedUrl(url, token) ==
    IF token = "" THEN url
    ELSE IF Contains(url, GitHub)
         THEN Replace(url, HTTPS, HTTPS \o <<token, "@">>)
         ELSE IF Contains(url, GitLab)
              THEN Replace(url, HTTPS,
                           HTTPS \o <<"o", "a", "u", "t", "h", "2", ":", token, "@">>)
              ELSE Replace(url, HTTPS, HTTPS \o <<token, "@">>)

\* line 165: the clone command, without its branch and directory.
CloneCmd(url) == <<"git clone ">> \o url \o <<" --depth 1">>

\* The text put into the messages of lines 144 and 166 ("URL: ...",
\* "Executing: ..."); the other messages of execute_git_clone hold no argument
\* but the branch and the directory.
CloneLog(url, token) == <<url, CloneCmd(AuthenticatedUrl(url, token))>>

\* The clone command is built, logged and run.
RunClone ==
    /\ clone_runs' = clone_runs + 1
    /\ clone_url' = AuthenticatedUrl(git_url, git_token)
    /\ clone_log' = clone_log \o CloneLog(git_url, git_token)

\* execute_git_clone (lines 142-184) on what the clone command does: "True",
\* "False", or "raise" for an exception that except Exception does not catch.
CloneOutcomes == {"rc0", "nonzero", "timeout", "exception", "base_exception"}
execute_git_clone(outcome) ==
    CASE outcome = "rc0" -> "True"
      [] outcome \in {"nonzero", "timeout", "exception"} -> "False"
      [] OTHER -> "raise"

\* MainClone with the failed clone ending the process at once (os._exit).
MainClone_ExitSkipsCleanup ==
    /\ pc = "m_clone"
    /\ \E outcome \in CloneOutcomes :
         LET r == execute_git_clone(outcome)
         IN  /\ clone_ret' = IF r = "raise" THEN clone_ret ELSE r
             /\ CASE r = "True" ->
                       pc' = "m_workdir" /\ UNCHANGED <<main_pending, exit_status>>
                  [] r = "False" -> ExitNow(1) /\ main_pending' = "sys_exit_1"
                  [] OTHER ->
                       /\ pc' = "m_finally"
                       /\ main_pending' = "base_exception"
                       /\ UNCHANGED exit_status
    /\ RunClone
    /\ UNCHANGED <<Inputs, Args, Validation, Listing, git_token, env_vars, fs, work_dir, cli_path,
                   native_failure, dl_failure, dl_pending, dl_ret, ebo_ret, attempts,
                   issued, rmtree_calls, rmtree_raised, created>>

\* MainClone with a failed clone tried a second time.
MainClone_RetriesOnFailure ==
    /\ pc = "m_clone"
    /\ \E outcome \in CloneOutcomes :
         LET r == execute_git_clone(outcome)
         IN  /\ clone_ret' = IF r = "raise" THEN clone_ret ELSE r
             /\ CASE r = "True" -> pc' = "m_workdir" /\ UNCHANGED main_pending
                  [] r = "False" /\ clone_runs = 0 -> pc' = "m_clone" /\ UNCHANGED main_pending
                  [] r = "False" /\ clone_runs # 0 ->
                       pc' = "m_finally" /\ main_pending' = "sys_exit_1"
                  [] OTHER -> pc' = "m_finally" /\ main_pending' = "base_exception"
    /\ RunClone
    /\ UNCHANGED <<Inputs, Args, Validation, Listing, git_token, env_vars, fs, work_dir, cli_path,
                   native_failure, dl_failure, dl_pending, dl_ret, ebo_ret, exit_status,
                   attempts, issued, rmtree_calls, rmtree_raised, created>>

\* lines 1032-1035
MainClone ==
    /\ pc = "m_clone"
    /\ \E outcome \in CloneOutcomes :
         LET r == execute_git_clone(outcome)
         IN  /\ clone_ret' = IF r = "raise" THEN clone_ret ELSE r
             /\ CASE r = "True" -> pc' = "m_workdir" /\ UNCHANGED main_pending
                  [] r = "False" -> pc' = "m_finally" /\ main_pending' = "sys_exit_1"
                  [] OTHER -> pc' = "m_finally" /\ main_pending' = "base_exception"
    /\ RunClone
    /\ UNCHANGED <<Inputs, Args, Validation, Listing, git_token, env_vars, fs, work_dir, cli_path,
                   native_failure, dl_failure, dl_pending, dl_ret, ebo_ret, exit_status,
                   attempts, issued, rmtree_calls, rmtree_raised, created>>

\* lines 1037-1048
MainWorkDir ==
    /\ pc = "m_workdir"
    /\ work_dir' = ResolveWorkDir(TempDir, yaml_path, descriptor_state # "absent_dir")
    /\ pc' = "m_bundle"
    /\ UNCHANGED <<Inputs, Args, Validation, Listing, git_token, CloneRun, env_vars, fs, cli_path, clone_ret, native_failure, dl_failure,
                   dl_pending, dl_ret, ebo_ret, main_pending, exit_status, attempts, issued,
                   rmtree_calls, rmtree_raised, created>>

(***************************************************************************)
(* execute_bundle_operation (lines 399-543): the native-CLI strategy.      *)
(* A subprocess.TimeoutExpired is an Exception, so the handler of line 521 *)
(* takes every timeout and exception of lines 437-519.                     *)
(***************************************************************************)
\* timeout=600 of the two bundle commands (lines 499, 688)
BundleTimeout == 600

\* lines 493-494 and 678-679: bundle_cmd.extend(["-t", target_env])
TargetArgs(target) == IF target # "" THEN <<"-t", target>> ELSE <<>>

\* A bundle command as run: its words, its directory, the environment it is
\* given, the seconds after which it is cut off, and how it ended.
Command(strategy, cli, cwd, outcome) ==
    [strategy |-> strategy, cmd |-> BundleCmd(cli, operation) \o TargetArgs(target_env),
     cwd |-> cwd, env |-> env_vars, timeout |-> BundleTimeout, outcome |-> outcome]

\* return download_and_execute_bundle_operation(...) (lines 519, 527): enter it.
FallBack(kind) ==
    /\ native_failure' = kind
    /\ pc' = "d_platform"

\* line 1051, the call, and lines 414-435
EboEnter ==
    /\ pc = "m_bundle"
    /\ attempts' = Append(attempts, "native")
    /\ pc' = "e_inspect"
    /\ UNCHANGED <<Inputs, Args, Validation, Listing, git_token, CloneRun, env_vars, fs, work_dir, cli_path, clone_ret, native_failure,
                   dl_failure, dl_pending, dl_ret, ebo_ret, main_pending, exit_status,
                   issued, rmtree_calls, rmtree_raised, created>>

\* lines 437-465
EboInspect ==
    /\ pc = "e_inspect"
    /\ \E environment \in CliEnvironments :
         LET found == SelectCli(inspect_cli_environment(environment))
         IN  IF found = ""
             THEN /\ native_failure' = "no_cli"
                  /\ ebo_ret' = "False"
                  /\ pc' = "m_after_bundle"
                  /\ UNCHANGED cli_path
             ELSE /\ cli_path' = found
                  /\ pc' = "e_version"
                  /\ UNCHANGED <<native_failure, ebo_ret>>
    /\ UNCHANGED <<Inputs, Args, Validation, Listing, git_token, CloneRun, env_vars, fs, work_dir, clone_ret, dl_failure, dl_pending,
                   dl_ret, main_pending, exit_status, attempts, issued, rmtree_calls,
                   rmtree_raised, created>>

\* lines 478-486: the return code is only logged.
EboVersion ==
    /\ pc = "e_version"
    /\ \E outcome \in {"rc0", "nonzero", "timeout", "exception"} :
         IF outcome \in {"rc0", "nonzero"}
         THEN pc' = "e_bundle" /\ UNCHANGED native_failure
         ELSE FallBack(outcome)
    /\ UNCHANGED <<Inputs, Args, Validation, Listing, git_token, CloneRun, env_vars, fs, work_dir, cli_path, clone_ret, dl_failure,
                   dl_pending, dl_ret, ebo_ret, main_pending, exit_status, attempts,
                   issued, rmtree_calls, rmtree_raised, created>>

\* EboBundle with the fallback also taken after a successful command.
EboBundle_NoStopAtSuccess ==
    /\ pc = "e_bundle"
    /\ \E outcome \in {"rc0", "nonzero", "timeout", "exception", "base_exception"} :
         /\ issued' = IF outcome = "exception" THEN issued
                      ELSE Append(issued, Command("native", cli_path, work_dir, outcome))
         /\ CASE outcome = "rc0" ->
                   /\ pc' = "d_platform"
                   /\ UNCHANGED <<native_failure, ebo_ret, main_pending>>
              [] outcome \in {"nonzero", "timeout", "exception"} ->
                   /\ FallBack(outcome)
                   /\ UNCHANGED <<ebo_ret, main_pending>>
              [] OTHER ->
                   /\ main_pending' = "base_exception"
                   /\ pc' = "m_finally"
                   /\ UNCHANGED <<native_failure, ebo_ret>>
    /\ UNCHANGED <<Inputs, Args, Validation, Listing, git_token, CloneRun, env_vars, fs, work_dir, cli_path, clone_ret, dl_failure,
                   dl_pending, dl_ret, exit_status, attempts, rmtree_calls, rmtree_raised,
                   created>>

\* EboBundle with a timeout returning False instead of falling back.
EboBundle_TimeoutFatal ==
    /\ pc = "e_bundle"
    /\ \E outcome \in {"rc0", "nonzero", "timeout", "exception", "base_exception"} :
         /\ issued' = IF outcome = "exception" THEN issued
                      ELSE Append(issued, Command("native", cli_path, work_dir, outcome))
         /\ CASE outcome = "rc0" ->
                   /\ ebo_ret' = "True"
                   /\ pc' = "m_after_bundle"
                   /\ UNCHANGED <<native_failure, main_pending>>
              [] outcome = "timeout" ->
                   /\ native_failure' = "timeout"
                   /\ ebo_ret' = "False"
                   /\ pc' = "m_after_bundle"
                   /\ UNCHANGED main_pending
              [] outcome \in {"nonzero", "exception"} ->
                   /\ FallBack(outcome)
                   /\ UNCHANGED <<ebo_ret, main_pending>>
              [] OTHER ->
                   /\ main_pending' = "base_exception"
                   /\ pc' = "m_finally"
                   /\ UNCHANGED <<native_failure, ebo_ret>>
    /\ UNCHANGED <<Inputs, Args, Validation, Listing, git_token, CloneRun, env_vars, fs, work_dir, cli_path, clone_ret, dl_failure,
                   dl_pending, dl_ret, exit_status, attempts, rmtree_calls, rmtree_raised,
                   created>>

\* lines 488-527.  "exception": the command could not be started.
EboBundle ==
    /\ pc = "e_bundle"
    /\ \E outcome \in {"rc0", "nonzero", "timeout", "exception", "base_exception"} :
         /\ issued' = IF outcome = "exception" THEN issued
                      ELSE Append(issued, Command("native", cli_path, work_dir, outcome))
         /\ CASE outcome = "rc0" ->
                   /\ ebo_ret' = "True"
                   /\ pc' = "m_after_bundle"
                   /\ UNCHANGED <<native_failure, main_pending>>
              [] outcome \in {"nonzero", "timeout", "exception"} ->
                   /\ FallBack(outcome)
                   /\ UNCHANGED <<ebo_ret, main_pending>>
              [] OTHER ->
                   /\ main_pending' = "base_exception"
                   /\ pc' = "m_finally"
                   /\ UNCHANGED <<native_failure, ebo_ret>>
    /\ UNCHANGED <<Inputs, Args, Validation, Listing, git_token, CloneRun, env_vars, fs, work_dir, cli_path, clone_ret, dl_failure,
                   dl_pending, dl_ret, exit_status, attempts, rmtree_calls, rmtree_raised,
                   created>>

(***************************************************************************)
(* download_and_execute_bundle_operation (lines 545-715): the              *)
(* downloaded-CLI strategy.  Every caller returns its result unchanged.    *)
(***************************************************************************)
\* DlReturn with the caller dropping the fallback's result.
DlReturn_ResultDropped(value) ==
    /\ dl_ret' = value
    /\ ebo_ret' = "False"
    /\ pc' = "m_after_bundle"

\* return False / return True, and the caller's return of it.
DlReturn(value) ==
    /\ dl_ret' = value
    /\ ebo_ret' = value
    /\ pc' = "m_after_bundle"

\* Leave the inner try block (lines 582-703) for its finally clause.
DlLeave(pending, failure) ==
    /\ dl_pending' = pending
    /\ dl_failure' = failure
    /\ pc' = "d_finally"

\* lines 565-576
DlPlatform ==
    /\ pc = "d_platform"
    /\ attempts' = Append(attempts, "download")
    /\ \E system \in {"linux", "darwin", "windows"} :
         IF system \in {"linux", "darwin"}
         THEN pc' = "d_mkdtemp" /\ UNCHANGED <<dl_ret, ebo_ret, dl_failure>>
         ELSE DlReturn("False") /\ dl_failure' = "unsupported_platform"
    /\ UNCHANGED <<Inputs, Args, Validation, Listing, git_token, CloneRun, env_vars, fs, work_dir, cli_path, clone_ret, native_failure,
                   dl_pending, main_pending, exit_status, issued, rmtree_calls,
                   rmtree_raised, created>>

\* line 579; mkdtemp raising is caught at line 713.
DlMkdtemp ==
    /\ pc = "d_mkdtemp"
    /\ \E made \in BOOLEAN :
         IF made
         THEN /\ fs' = fs \cup {TempCliDir}
              /\ created' = Append(created, TempCliDir)
              /\ pc' = "d_download"
              /\ UNCHANGED <<dl_ret, ebo_ret, dl_failure>>
         ELSE /\ DlReturn("False")
              /\ dl_failure' = "mkdtemp_error"
              /\ UNCHANGED <<fs, created>>
    /\ UNCHANGED <<Inputs, Args, Validation, Listing, git_token, CloneRun, env_vars, work_dir, cli_path, clone_ret, native_failure,
                   dl_pending, main_pending, exit_status, attempts, issued, rmtree_calls,
                   rmtree_raised>>

\* lines 583-593: requests.get and raise_for_status.
DlDownload ==
    /\ pc = "d_download"
    /\ \E outcome \in {"ok", "http_error", "timeout"} :
         IF outcome = "ok"
         THEN pc' = "d_unzip" /\ UNCHANGED <<dl_pending, dl_failure>>
         ELSE DlLeave("exception", IF outcome = "timeout" THEN "download_timeout"
                                   ELSE "download_error")
    /\ UNCHANGED <<Inputs, Args, Validation, Listing, git_token, CloneRun, env_vars, fs, work_dir, cli_path, clone_ret, native_failure,
                   dl_ret, ebo_ret, main_pending, exit_status, attempts, issued,
                   rmtree_calls, rmtree_raised, created>>

\* DlUnzip with the failed extraction returning before the cleanup.
DlUnzip_ReturnSkipsCleanup ==
    /\ pc = "d_unzip"
    /\ \E outcome \in {"rc0", "nonzero", "timeout"} :
         CASE outcome = "rc0" ->
                pc' = "d_locate" /\ UNCHANGED <<dl_pending, dl_failure, dl_ret, ebo_ret>>
           [] outcome = "nonzero" ->
                DlReturn("False") /\ dl_failure' = "unzip_failed" /\ UNCHANGED dl_pending
           [] OTHER -> DlLeave("exception", "unzip_timeout") /\ UNCHANGED <<dl_ret, ebo_ret>>
    /\ UNCHANGED <<Inputs, Args, Validation, Listing, git_token, CloneRun, env_vars, fs, work_dir, cli_path, clone_ret, native_failure,
                   main_pending, exit_status, attempts, issued, rmtree_calls,
                   rmtree_raised, created>>

\* lines 595-604
DlUnzip ==
    /\ pc = "d_unzip"
    /\ \E outcome \in {"rc0", "nonzero", "timeout"} :
         CASE outcome = "rc0" -> pc' = "d_locate" /\ UNCHANGED <<dl_pending, dl_failure>>
           [] outcome = "nonzero" -> DlLeave("return_false", "unzip_failed")
           [] OTHER -> DlLeave("exception", "unzip_timeout")
    /\ UNCHANGED <<Inputs, Args, Validation, Listing, git_token, CloneRun, env_vars, fs, work_dir, cli_path, clone_ret, native_failure,
                   dl_ret, ebo_ret, main_pending, exit_status, attempts, issued,
                   rmtree_calls, rmtree_raised, created>>

\* lines 606-626
DlLocate ==
    /\ pc = "d_locate"
    /\ \E files \in SUBSET {PossibleNames[i] : i \in 1..Len(PossibleNames)} :
         IF LocateBinary(files) = ""
         THEN DlLeave("return_false", "binary_not_found") /\ UNCHANGED cli_path
         ELSE /\ cli_path' = LocateBinary(files)
              /\ pc' = "d_version"
              /\ UNCHANGED <<dl_pending, dl_failure>>
    /\ UNCHANGED <<Inputs, Args, Validation, Listing, git_token, CloneRun, env_vars, fs, work_dir, clone_ret, native_failure, dl_ret,
                   ebo_ret, main_pending, exit_status, attempts, issued, rmtree_calls,
                   rmtree_raised, created>>

\* lines 628-636
DlVersion ==
    /\ pc = "d_version"
    /\ \E outcome \in {"rc0", "nonzero", "timeout", "exception"} :
         CASE outcome \in {"rc0", "nonzero"} ->
                pc' = "d_bundle" /\ UNCHANGED <<dl_pending, dl_failure>>
           [] outcome = "timeout" -> DlLeave("exception", "version_timeout")
           [] OTHER -> DlLeave("exception", "version_exception")
    /\ UNCHANGED <<Inputs, Args, Validation, Listing, git_token, CloneRun, env_vars, fs, work_dir, cli_path, clone_ret, native_failure,
                   dl_ret, ebo_ret, main_pending, exit_status, attempts, issued,
                   rmtree_calls, rmtree_raised, created>>

\* lines 638-703: the command runs in temp_cli_dir, on the databricks.yml written there.
DlBundle ==
    /\ pc = "d_bundle"
    /\ \E outcome \in {"rc0", "nonzero", "timeout", "exception", "base_exception"} :
         /\ issued' = IF outcome = "exception" THEN issued
                      ELSE Append(issued, Command("download", cli_path, TempCliDir, outcome))
         /\ CASE outcome = "rc0" -> DlLeave("return_true", "none")
              [] outcome = "nonzero" -> DlLeave("return_false", "bundle_failed")
              [] outcome = "timeout" -> DlLeave("exception", "bundle_timeout")
              [] outcome = "exception" -> DlLeave("exception", "bundle_exception")
              [] OTHER -> DlLeave("base_exception", "interrupted")
    /\ UNCHANGED <<Inputs, Args, Validation, Listing, git_token, CloneRun, env_vars, fs, work_dir, cli_path, clone_ret, native_failure,
                   dl_ret, ebo_ret, main_pending, exit_status, attempts, rmtree_calls,
                   rmtree_raised, created>>

\* shutil.rmtree(dir) inside try/except Exception (lines 707-711, 1059-1063): it
\* removes the directory, or raises and leaves it.
RmtreeResults == {"removed", "raised"}
Rmtree(dir, result) ==
    /\ rmtree_calls' = [rmtree_calls EXCEPT ![dir] = @ + 1]
    /\ fs' = IF result = "removed" THEN fs \ {dir} ELSE fs
    /\ rmtree_raised' = IF result = "removed" THEN rmtree_raised
                        ELSE rmtree_raised \cup {dir}

\* lines 705-711
DlFinally ==
    /\ pc = "d_finally"
    /\ \E result \in RmtreeResults : Rmtree(TempCliDir, result)
    /\ pc' = "d_exit"
    /\ UNCHANGED <<Inputs, Args, Validation, Listing, git_token, CloneRun, env_vars, work_dir, cli_path, clone_ret, native_failure,
                   dl_failure, dl_pending, dl_ret, ebo_ret, main_pending, exit_status,
                   attempts, issued, created>>

\* After the finally clause: the pending return, or the handler of line 713, or an
\* exception that handler does not catch, which passes through the callers.
DlExit ==
    /\ pc = "d_exit"
    /\ CASE dl_pending = "return_true" -> DlReturn("True") /\ UNCHANGED main_pending
         [] dl_pending \in {"return_false", "exception"} ->
              DlReturn("False") /\ UNCHANGED main_pending
         [] OTHER ->
              /\ main_pending' = "base_exception"
              /\ pc' = "m_finally"
              /\ UNCHANGED <<dl_ret, ebo_ret>>
    /\ UNCHANGED <<Inputs, Args, Validation, Listing, git_token, CloneRun, env_vars, fs, work_dir, cli_path, clone_ret, native_failure,
                   dl_failure, dl_pending, exit_status, attempts, issued, rmtree_calls,
                   rmtree_raised, created>>

(***************************************************************************)
(* The end of the invocation (lines 1051-1063).                            *)
(***************************************************************************)
\* MainAfterBundle with the result of the chain ignored.
MainAfterBundle_ResultIgnored ==
    /\ pc = "m_after_bundle"
    /\ main_pending' = "fall_through"
    /\ pc' = "m_finally"
    /\ UNCHANGED <<Inputs, Args, Validation, Listing, git_token, CloneRun, env_vars, fs, work_dir, cli_path, clone_ret, native_failure,
                   dl_failure, dl_pending, dl_ret, ebo_ret, exit_status, attempts, issued,
                   rmtree_calls, rmtree_raised, created>>

\* lines 1051-1055
MainAfterBundle ==
    /\ pc = "m_after_bundle"
    /\ main_pending' = IF ebo_ret = "True" THEN "fall_through" ELSE "sys_exit_1"
    /\ pc' = "m_finally"
    /\ UNCHANGED <<Inputs, Args, Validation, Listing, git_token, CloneRun, env_vars, fs, work_dir, cli_path, clone_ret, native_failure,
                   dl_failure, dl_pending, dl_ret, ebo_ret, exit_status, attempts, issued,
                   rmtree_calls, rmtree_raised, created>>

\* MainFinally with the exception of rmtree left to propagate.
MainFinally_CleanupErrorPropagates ==
    /\ pc = "m_finally"
    /\ \E result \in RmtreeResults :
         /\ Rmtree(TempDir, result)
         /\ main_pending' = IF result = "removed" THEN main_pending ELSE "base_exception"
    /\ pc' = "m_exit"
    /\ UNCHANGED <<Inputs, Args, Validation, Listing, git_token, CloneRun, env_vars, work_dir, cli_path, clone_ret, native_failure,
                   dl_failure, dl_pending, dl_ret, ebo_ret, exit_status, attempts, issued,
                   created>>

\* lines 1057-1063
MainFinally ==
    /\ pc = "m_finally"
    /\ \E result \in RmtreeResults : Rmtree(TempDir, result)
    /\ pc' = "m_exit"
    /\ UNCHANGED <<Inputs, Args, Validation, Listing, git_token, CloneRun, env_vars, work_dir, cli_path, clone_ret, native_failure,
                   dl_failure, dl_pending, dl_ret, ebo_ret, main_pending, exit_status,
                   attempts, issued, created>>

\* The process ends: status 0 off the end of the script, 1 from sys.exit(1); an
\* uncaught exception ends it with a non-zero status too, written 1.
MainExit ==
    /\ pc = "m_exit"
    /\ exit_status' = IF main_pending = "fall_through" THEN 0 ELSE 1
    /\ pc' = "exited"
    /\ UNCHANGED <<Inputs, Args, Validation, Listing, git_token, CloneRun, env_vars, fs, work_dir, cli_path, clone_ret, native_failure,
                   dl_failure, dl_pending, dl_ret, ebo_ret, main_pending, attempts, issued,
                   rmtree_calls, rmtree_raised, created>>

Next ==
    \/ MainParseConfigs \/ MainSetupAuth \/ MainCheckParams \/ MainMkdtemp \/ MainClone
    \/ MainWorkDir
    \/ EboEnter \/ EboInspect \/ EboVersion \/ EboBundle
    \/ DlPlatform \/ DlMkdtemp \/ DlDownload \/ DlUnzip \/ DlLocate \/ DlVersion
    \/ DlBundle \/ DlFinally \/ DlExit
    \/ MainAfterBundle \/ MainFinally \/ MainExit

Spec == Init /\ [][Next]_vars

(***************************************************************************)
(* The invocation over every shape of the two connection-config arguments. *)
(***************************************************************************)
ConfigBlobs ==
    { NoBlob, Malformed,
      Json(DbConfig("personal_access_token", "tok-pat", "", "", "", <<>>, HostName)),
      Json(DbConfig("service_principal", "", "", "client-1", "secret-1", <<>>, HostName)) }
GitBlobs == {NoBlob, Malformed} \cup {Json(cfg) : cfg \in GitConfigs}

ConfigInit ==
    /\ pc = "m_parse"
    /\ operation = "validate"
    /\ yaml_path = <<"databricks.yml">>
    /\ git_url = GitHubUrl
    /\ db_config = EmptyDict
    /\ databricks_connection_config \in ConfigBlobs
    /\ git_connection_config \in GitBlobs
    /\ git_token \in GitTokens
    /\ descriptor_state = "present"
    /\ databricks_host = HTTPS \o HostName
    /\ databricks_token \in DirectTokens
    /\ DefaultOptions
    /\ Fresh
    /\ ValidationIdle
    /\ ListingIdle

ConfigSpec == ConfigInit /\ [][Next]_vars

(***************************************************************************)
(* The invocation over every shape of --yaml_path and of the clone.        *)
(***************************************************************************)
DescriptorInit ==
    /\ pc = "m_parse"
    /\ operation = "validate"
    /\ yaml_path \in YamlPaths
    /\ git_url = GitHubUrl
    /\ db_config = EmptyDict
    /\ databricks_connection_config = NoBlob
    /\ git_connection_config = NoBlob
    /\ git_token = ""
    /\ descriptor_state \in DescriptorStates
    /\ PossibleDescriptor(yaml_path, descriptor_state)
    /\ databricks_host = HTTPS \o HostName
    /\ databricks_token = "tok-arg"
    /\ DefaultOptions
    /\ Fresh
    /\ ValidationIdle
    /\ ListingIdle

DescriptorSpec == DescriptorInit /\ [][Next]_vars

(***************************************************************************)
(* The invocation over every shape of --git_url, with and without a token. *)
(***************************************************************************)
OtherHost == <<"d", "e", "v", ".", "a", "z">>
CloneUrls ==
    { GitHubUrl,
      HTTPS \o GitLab \o RepoPath,
      HTTPS \o OtherHost \o RepoPath,
      HTTP \o GitHub \o RepoPath,
      <<"g", "i", "t", "@">> \o GitHub \o <<":", "r">> }

CloneInit ==
    /\ pc = "m_parse"
    /\ operation = "validate"
    /\ yaml_path = <<"databricks.yml">>
    /\ git_url \in CloneUrls
    /\ db_config = EmptyDict
    /\ databricks_connection_config = NoBlob
    /\ git_connection_config \in {NoBlob, Json(Entry("token", "git-cfg"))}
    /\ git_token \in GitTokens
    /\ descriptor_state = "present"
    /\ databricks_host = HTTPS \o HostName
    /\ databricks_token = "tok-arg"
    /\ DefaultOptions
    /\ Fresh
    /\ ValidationIdle
    /\ ListingIdle

CloneSpec == CloneInit /\ [][Next]_vars

(***************************************************************************)
(* The invocation over --operation, --target_env and --timeout.            *)
(***************************************************************************)
Timeouts == {60, 600}
TargetEnvs == {"", "dev"}

OptionsInit ==
    /\ pc = "m_parse"
    /\ operation \in Operations
    /\ yaml_path = <<"bundles", "databricks.yml">>
    /\ git_url = GitHubUrl
    /\ db_config = EmptyDict
    /\ databricks_connection_config = NoBlob
    /\ git_connection_config = NoBlob
    /\ git_token = ""
    /\ descriptor_state = "present"
    /\ databricks_host = HTTPS \o HostName
    /\ databricks_token = "tok-arg"
    /\ target_env \in TargetEnvs
    /\ timeout \in Timeouts
    /\ Fresh
    /\ ValidationIdle
    /\ ListingIdle

OptionsSpec == OptionsInit /\ [][Next]_vars

(***************************************************************************)
(* setup_databricks_authentication on its own, over every shape of input.  *)
(***************************************************************************)
AuthInit ==
    /\ pc = "a_call"
    /\ operation = "validate"
    /\ yaml_path = <<"databricks.yml">>
    /\ git_url = GitHubUrl
    /\ db_config \in DbConfigs
    /\ databricks_host \in HostInputs
    /\ databricks_token \in DirectTokens
    /\ databricks_connection_config = Json(db_config)
    /\ git_connection_config = NoBlob
    /\ git_token = ""
    /\ descriptor_state = "present"
    /\ DefaultOptions
    /\ Fresh
    /\ ValidationIdle
    /\ ListingIdle

AuthApply ==
    /\ pc = "a_call"
    /\ env_vars' = setup_databricks_authentication(db_config, databricks_host, databricks_token)
    /\ pc' = "a_done"
    /\ UNCHANGED <<Inputs, Args, Validation, Listing, git_token, CloneRun, fs, work_dir, cli_path, clone_ret, native_failure, dl_failure,
                   dl_pending, dl_ret, ebo_ret, main_pending, exit_status, attempts, issued,
                   rmtree_calls, rmtree_raised, created>>

AuthNext == AuthApply

AuthSpec == AuthInit /\ [][AuthNext]_vars

(***************************************************************************)
(* setup_databricks_authentication over host strings that hold a scheme    *)
(* anywhere, or more than once.                                            *)
(***************************************************************************)
MaxPieces == 3

HostPieces == {HTTPS, HTTP, HostName}

\* The strings made of at most n pieces.
RECURSIVE PieceStrings(_)
PieceStrings(n) ==
    IF n = 0 THEN {<<>>}
    ELSE LET shorter == PieceStrings(n - 1)
         IN  shorter \cup {s \o piece : s \in shorter, piece \in HostPieces}

HostStrings == PieceStrings(MaxPieces)

HostInit ==
    /\ pc = "a_call"
    /\ operation = "validate"
    /\ yaml_path = <<"databricks.yml">>
    /\ git_url = GitHubUrl
    /\ db_config \in { EmptyDict,
                       DbConfig("service_principal", "", "", "client-1", "secret-1",
                                <<>>, <<>>) }
    /\ databricks_host \in HostStrings
    /\ databricks_token = "tok-arg"
    /\ databricks_connection_config = Json(db_config)
    /\ git_connection_config = NoBlob
    /\ git_token = ""
    /\ descriptor_state = "present"
    /\ DefaultOptions
    /\ Fresh
    /\ ValidationIdle
    /\ ListingIdle

HostSpec == HostInit /\ [][AuthNext]_vars

(***************************************************************************)
(* execute_bundle_validation (lines 826-965) called some number of times   *)
(* on one descriptor, against a platform that already holds a job.         *)
(***************************************************************************)
MaxRuns == 2

\* What yaml.safe_load makes of yaml_content: it raises or gives no mapping, or
\* it gives a mapping with some of the top-level sections and, under
\* resources.jobs, some jobs in order.
Descriptors ==
    { [kind |-> "unparsable", sections |-> {}, jobs |-> <<>>] }
    \cup { [kind |-> "mapping", sections |-> sec, jobs |-> jobs] :
             sec \in SUBSET {"bundle", "targets"},
             jobs \in {<<>>, <<"job_a">>, <<"job_a", "job_b">>} }

ValidationEnvs ==
    { EmptyDict,
      ("DATABRICKS_HOST" :> HostName) @@ ("DATABRICKS_TOKEN" :> "tok-arg"),
      ("DATABRICKS_HOST" :> HostName) @@ ("DATABRICKS_CLIENT_ID" :> "client-1")
          @@ ("DATABRICKS_CLIENT_SECRET" :> "secret-1") }

\* The jobs on the platform before the first call.
ExistingJobs == { [name |-> "nightly", run |-> 0] }

\* What an HTTP request can end with: status 200, another status, an exception.
Responses == {"200", "non200", "exception"}

\* What the invocation holds; execute_bundle_validation touches none of it.
MainState == <<pc, Inputs, Args, git_token, CloneRun, env_vars, fs, work_dir, cli_path,
               clone_ret, native_failure, dl_failure, dl_pending, dl_ret, ebo_ret,
               main_pending, exit_status, attempts, issued, rmtree_calls, rmtree_raised,
               created>>

\* execute_hardcoded_yaml_test (lines 717-824): the sections it looks for are
\* those of the mapping it has just built itself.
execute_hardcoded_yaml_test ==
    LET parsed_yaml == {"bundle", "targets", "resources"}
        required_sections == {"bundle", "targets", "resources"}
    IN  IF required_sections \subseteq parsed_yaml THEN "True" ELSE "False"

ValidationInit ==
    /\ pc = "validation"
    /\ operation = "validate"
    /\ yaml_path = <<"databricks.yml">>
    /\ git_url = GitHubUrl
    /\ db_config = EmptyDict
    /\ databricks_connection_config = NoBlob
    /\ git_connection_config = NoBlob
    /\ git_token = ""
    /\ descriptor_state = "present"
    /\ databricks_host = HTTPS \o HostName
    /\ databricks_token = ""
    /\ DefaultOptions
    /\ NothingRun
    /\ env_vars \in ValidationEnvs
    /\ v_pc = "v_idle"
    /\ descriptor \in Descriptors
    /\ platform_jobs = ExistingJobs
    /\ v_job = NoJob
    /\ v_ret = "none"
    /\ v_runs = 0
    /\ v_connected = FALSE
    /\ ListingIdle

\* return value
ValReturn(value) ==
    /\ v_ret' = value
    /\ v_pc' = "v_done"

\* the call (line 826)
ValEnter ==
    /\ v_pc \in {"v_idle", "v_done"}
    /\ v_runs < MaxRuns
    /\ v_runs' = v_runs + 1
    /\ v_ret' = "none"
    /\ v_job' = NoJob
    /\ v_connected' = FALSE
    /\ v_pc' = "v_auth"
    /\ UNCHANGED <<MainState, Listing, descriptor, platform_jobs>>

\* lines 842-880
ValAuth ==
    /\ v_pc = "v_auth"
    /\ IF Get(env_vars, "DATABRICKS_TOKEN") # ""
       THEN v_pc' = "v_connect" /\ UNCHANGED v_ret
       ELSE IF /\ Get(env_vars, "DATABRICKS_CLIENT_ID") # ""
               /\ Get(env_vars, "DATABRICKS_CLIENT_SECRET") # ""
            THEN \E token_response \in Responses :
                   CASE token_response = "200" -> v_pc' = "v_connect" /\ UNCHANGED v_ret
                     [] token_response = "non200" -> ValReturn(execute_hardcoded_yaml_test)
                     [] OTHER -> ValReturn("False")
            ELSE ValReturn(execute_hardcoded_yaml_test)
    /\ UNCHANGED <<MainState, Listing, descriptor, platform_jobs, v_job, v_runs, v_connected>>

\* lines 882-896
ValConnect ==
    /\ v_pc = "v_connect"
    /\ \E test_response \in Responses :
         IF test_response = "200"
         THEN v_pc' = "v_parse" /\ v_connected' = TRUE /\ UNCHANGED v_ret
         ELSE ValReturn("False") /\ UNCHANGED v_connected
    /\ UNCHANGED <<MainState, Listing, descriptor, platform_jobs, v_job, v_runs>>

\* lines 899-908 and 944-957
ValParse ==
    /\ v_pc = "v_parse"
    /\ CASE descriptor.kind # "mapping" -> ValReturn("False")
         [] descriptor.kind = "mapping" /\ descriptor.jobs # <<>> ->
              v_pc' = "v_create" /\ UNCHANGED v_ret
         [] OTHER ->
              IF {"bundle", "targets"} \subseteq descriptor.sections
              THEN ValReturn("True")
              ELSE ValReturn("False")
    /\ UNCHANGED <<MainState, Listing, descriptor, platform_jobs, v_job, v_runs, v_connected>>

\* lines 910-927 and 939-941: the test job of the first job of the bundle.
ValCreate ==
    /\ v_pc = "v_create"
    /\ \E validation_response \in Responses :
         IF validation_response = "200"
         THEN LET job == [name |-> descriptor.jobs[1], run |-> v_runs]
              IN  /\ platform_jobs' = platform_jobs \cup {job}
                  /\ v_job' = job
                  /\ v_pc' = "v_delete"
                  /\ UNCHANGED v_ret
         ELSE /\ ValReturn("False")
              /\ UNCHANGED <<platform_jobs, v_job>>
    /\ UNCHANGED <<MainState, Listing, descriptor, v_runs, v_connected>>

\* lines 928-941 and 959-961
ValDelete ==
    /\ v_pc = "v_delete"
    /\ \E delete_response \in Responses :
         CASE delete_response = "200" ->
                /\ platform_jobs' = platform_jobs \ {v_job}
                /\ ValReturn("True")
           [] delete_response = "non200" ->
                /\ UNCHANGED platform_jobs
                /\ ValReturn("True")
           [] OTHER ->
                /\ UNCHANGED platform_jobs
                /\ ValReturn("False")
    /\ UNCHANGED <<MainState, Listing, descriptor, v_job, v_runs, v_connected>>

ValidationNext ==
    \/ ValEnter \/ ValAuth \/ ValConnect \/ ValParse \/ ValCreate \/ ValDelete

ValidationSpec == ValidationInit /\ [][ValidationNext]_vars

(***************************************************************************)
(* git_clone_and_list.main (src/git_clone_and_list.py, lines 115-249), run *)
(* by two invocations at once on one machine.  Each step below is one      *)
(* filesystem or process operation of main; the invocations interleave     *)
(* between steps.                                                          *)
(***************************************************************************)
Invocations == {"A", "B"}

\* dest_dir = os.path.join("/tmp", repo_name) (lines 118-125): the same for
\* every invocation, the repository URL being a literal.
DestDir == <<"/", "tmp", "Hello-World">>

\* f"{dest_dir}_{timestamp}" (lines 147-148), timestamp being the second read.
Timestamps == {"t1", "t2"}
AltDir(timestamp) == <<"/", "tmp", "Hello-World_" \o timestamp>>

ListDirs == {DestDir} \cup {AltDir(t) : t \in Timestamps}

\* A directory is absent, or holds what an earlier run or an invocation cloned.
ListInit ==
    /\ pc = "listing"
    /\ operation = "validate"
    /\ yaml_path = <<"databricks.yml">>
    /\ git_url = GitHubUrl
    /\ db_config = EmptyDict
    /\ databricks_connection_config = NoBlob
    /\ git_connection_config = NoBlob
    /\ git_token = ""
    /\ descriptor_state = "present"
    /\ databricks_host = HTTPS \o HostName
    /\ databricks_token = ""
    /\ DefaultOptions
    /\ Fresh
    /\ ValidationIdle
    /\ l_pc = [p \in Invocations |-> "l_start"]
    /\ l_dest = [p \in Invocations |-> <<>>]
    /\ \E before \in {"absent", "earlier"} :
         l_fs = [d \in ListDirs |-> IF d = DestDir THEN before ELSE "absent"]

\* lines 118-136
ListStart(p) ==
    /\ l_pc[p] = "l_start"
    /\ l_dest' = [l_dest EXCEPT ![p] = DestDir]
    /\ l_pc' = [l_pc EXCEPT ![p] = "l_exists"]
    /\ UNCHANGED <<MainState, Validation, l_fs>>

\* lines 139-149: whatever stands at dest_dir is removed, whoever made it; when
\* rmtree raises, the invocation moves to the timestamped name.
ListRemoveExisting(p) ==
    /\ l_pc[p] = "l_exists"
    /\ IF l_fs[l_dest[p]] # "absent"
       THEN \/ /\ l_fs' = [l_fs EXCEPT ![l_dest[p]] = "absent"]
               /\ UNCHANGED l_dest
            \/ /\ \E t \in Timestamps : l_dest' = [l_dest EXCEPT ![p] = AltDir(t)]
               /\ UNCHANGED l_fs
       ELSE UNCHANGED <<l_dest, l_fs>>
    /\ l_pc' = [l_pc EXCEPT ![p] = "l_git"]
    /\ UNCHANGED <<MainState, Validation>>

\* lines 156-161
ListGitCheck(p) ==
    /\ l_pc[p] = "l_git"
    /\ \E git_check \in {"version", "None"} :
         l_pc' = [l_pc EXCEPT ![p] = IF git_check = "None" THEN "l_exit_1" ELSE "l_clone"]
    /\ UNCHANGED <<MainState, Validation, l_dest, l_fs>>

\* lines 163-174: git clone refuses a destination that exists and is not empty.
ListClone(p) ==
    /\ l_pc[p] = "l_clone"
    /\ \E cloned \in BOOLEAN :
         IF cloned /\ l_fs[l_dest[p]] = "absent"
         THEN /\ l_fs' = [l_fs EXCEPT ![l_dest[p]] = p]
              /\ l_pc' = [l_pc EXCEPT ![p] = "l_report"]
         ELSE /\ l_pc' = [l_pc EXCEPT ![p] = "l_exit_1"]
              /\ UNCHANGED l_fs
    /\ UNCHANGED <<MainState, Validation, l_dest>>

\* lines 177-249: the report is read from dest_dir.
ListReport(p) ==
    /\ l_pc[p] = "l_report"
    /\ l_pc' = [l_pc EXCEPT ![p] = "l_done"]
    /\ UNCHANGED <<MainState, Validation, l_dest, l_fs>>

ListNext ==
    \E p \in Invocations :
        \/ ListStart(p) \/ ListRemoveExisting(p) \/ ListGitCheck(p)
        \/ ListClone(p) \/ ListReport(p)

ListSpec == ListInit /\ [][ListNext]_vars

(***************************************************************************)
(* Properties.                                                             *)
(***************************************************************************)
Range(seq) == {seq[i] : i \in DOMAIN seq}

Exited == pc = "exited"

\* The positions inside download_and_execute_bundle_operation.
DlLabels == {"d_platform", "d_mkdtemp", "d_download", "d_unzip", "d_locate",
             "d_version", "d_bundle", "d_finally", "d_exit"}

\* download_and_execute_bundle_operation was entered and has been left.
DlFinished == "download" \in Range(attempts) /\ pc \notin DlLabels

\* The failures of the downloaded-CLI strategy that are timeouts.
DlTimeouts == {"download_timeout", "unzip_timeout", "version_timeout", "bundle_timeout"}

\* Some strategy's bundle command exited 0.
SomeStrategySucceeded == \E i \in DOMAIN issued : issued[i].outcome = "rc0"

\* What execute_bundle_operation hands to its caller: a bare bool (lines 507-543).
FinalResult == [success |-> ebo_ret = "True"]

\* C1: whenever the native-CLI strategy has failed, for whatever reason, and
\* execute_bundle_operation has returned, the downloaded-CLI strategy was
\* attempted; False is returned only after both strategies were attempted and the
\* downloaded-CLI strategy returned False.
C1_FailureOnlyAfterEveryStrategy ==
    /\ (native_failure # "none" /\ ebo_ret # "none") => attempts = <<"native", "download">>
    /\ ebo_ret = "False" => (attempts = <<"native", "download">> /\ dl_ret = "False")

\* C2: the strategies start in the order native, downloaded, each at most once
\* and each running its bundle command at most once; when the native bundle
\* command exits 0 the function returns True with no download started and no
\* temporary CLI directory created; the downloaded-CLI strategy is started only
\* after the native strategy was attempted and failed.
C2_FixedOrderStopAtFirstSuccess ==
    /\ attempts \in {<<>>, <<"native">>, <<"native", "download">>}
    /\ \A i, j \in DOMAIN issued : issued[i].strategy = issued[j].strategy => i = j
    /\ \A i, j \in DOMAIN issued :
         (issued[i].strategy = "native" /\ issued[j].strategy = "download") => i < j
    /\ (\E i \in DOMAIN issued : issued[i].strategy = "native" /\ issued[i].outcome = "rc0")
         => /\ ebo_ret = "True"
            /\ attempts = <<"native">>
            /\ TempCliDir \notin Range(created)
            /\ dl_ret = "none"
    /\ (pc \in DlLabels \/ "download" \in Range(attempts))
         => (attempts[1] = "native" /\ native_failure # "none")

C2_Witness ==
    /\ Exited
    /\ exit_status = 0
    /\ issued = <<Command("native", "/usr/bin/databricks", TempDir, "rc0")>>

\* C3: after a timeout of the native version check or bundle command the
\* downloaded-CLI strategy is entered, once, and execute_bundle_operation returns
\* what that strategy returns; a timeout inside the downloaded-CLI strategy makes
\* it return False, with no exception passed to the caller.
C3_TimeoutIsStrategyFailure ==
    /\ native_failure = "timeout"
         => /\ pc \in DlLabels \/ "download" \in Range(attempts)
            /\ attempts \in {<<"native">>, <<"native", "download">>}
            /\ ebo_ret # "none" => (DlFinished /\ ebo_ret = dl_ret)
    /\ (dl_failure \in DlTimeouts /\ pc \notin DlLabels)
         => (dl_ret = "False" /\ ebo_ret = "False" /\ main_pending # "base_exception")

C3_Witness ==
    /\ Exited
    /\ native_failure = "timeout"
    /\ dl_failure = "bundle_timeout"
    /\ ebo_ret = "False"

C5_DeployOnlyAfterValidate ==
    \A i \in DOMAIN issued :
        issued[i].cmd[3] = "deploy"
            => \E j \in 1..(i - 1) :
                   issued[j].cmd[3] = "validate" /\ issued[j].outcome = "rc0"

\* C5 as amended: an invocation has one phase, the operation named by
\* --operation: every bundle command issued is that operation (a deploy is issued
\* with no validate phase before it), and when that phase's chain fails the
\* invocation exits non-zero.
C5_SinglePhase ==
    /\ \A i \in DOMAIN issued : issued[i].cmd[3] = operation
    /\ (Exited /\ ebo_ret = "False") => exit_status = 1

C5_Witness ==
    /\ Exited
    /\ operation = "deploy"
    /\ exit_status = 0
    /\ Len(issued) = 1
    /\ issued[1].cmd[3] = "deploy"

C7_CleanupFailureKeepsVerdict ==
    /\ (Exited /\ TempDir \in rmtree_raised) => (exit_status = 0 <=> ebo_ret = "True")
    /\ (TempCliDir \in rmtree_raised /\ pc \notin DlLabels)
         => /\ dl_pending \in {"return_true", "return_false", "exception"}
                => /\ dl_ret = (IF dl_pending = "return_true" THEN "True" ELSE "False")
                   /\ main_pending # "base_exception"
            /\ dl_ret = "True"
                <=> \E i \in DOMAIN issued :
                        issued[i].strategy = "download" /\ issued[i].outcome = "rc0"

C7_Witness ==
    /\ Exited
    /\ rmtree_raised = {TempDir, TempCliDir}
    /\ dl_ret = "True"
    /\ exit_status = 0

\* C8: on every path through download_and_execute_bundle_operation that created
\* the temporary CLI directory its removal is attempted exactly once, and a path
\* that created none (unsupported platform) attempts none.
C8_CliDirRemovedOnce ==
    /\ rmtree_calls[TempCliDir] <= 1
    /\ rmtree_calls[TempCliDir] = 1 => TempCliDir \in Range(created)
    /\ DlFinished
         => rmtree_calls[TempCliDir] = (IF TempCliDir \in Range(created) THEN 1 ELSE 0)
    /\ dl_failure = "unsupported_platform"
         => (TempCliDir \notin Range(created) /\ TempCliDir \notin fs)

C8_Witness ==
    /\ DlFinished
    /\ dl_failure = "unzip_failed"
    /\ rmtree_calls[TempCliDir] = 1
    /\ TempCliDir \notin fs

\* C9: the process exits with status 0 exactly when credential resolution
\* succeeded, the clone succeeded and some strategy's bundle command succeeded;
\* every other exit has a non-zero status.
C9_ExitStatus ==
    Exited
        => /\ exit_status >= 0
           /\ exit_status = 0
                <=> /\ DOMAIN env_vars # {}
                    /\ clone_ret = "True"
                    /\ SomeStrategySucceeded

C9_Witness ==
    /\ Exited
    /\ exit_status = 1
    /\ clone_ret = "True"
    /\ attempts = <<"native", "download">>
    /\ ~SomeStrategySucceeded

\* C10: a non-empty direct token makes setup_databricks_authentication succeed
\* and return it as DATABRICKS_TOKEN, whatever the connection config.
C10_DirectTokenWins ==
    (pc = "a_done" /\ databricks_token # "")
        => /\ DOMAIN env_vars # {}
           /\ "DATABRICKS_TOKEN" \in DOMAIN env_vars
           /\ env_vars["DATABRICKS_TOKEN"] = databricks_token

\* The connection config selects the service-principal variant.
IsServicePrincipal == Get(db_config, "authentication_type") = "service_principal"

\* The config's token variant, and its service-principal variant, fully populated.
TokenFieldPopulated ==
    Get(db_config, "personal_access_token") # "" \/ Get(db_config, "token") # ""
PrincipalPopulated == Get(db_config, "client_id") # "" /\ Get(db_config, "secret") # ""

\* A host was supplied, directly or in the config.
HostSupplied ==
    \/ Len(databricks_host) > 0
    \/ "workspace_url" \in DOMAIN db_config
    \/ "databricks_instance_url" \in DOMAIN db_config

Resolved == pc = "a_done"

\* C11 as stated: with authentication_type personal_access_token (or absent) and
\* a non-empty token field the result holds both DATABRICKS_HOST and
\* DATABRICKS_TOKEN; with no token field and no direct token it is empty.
C11_HostAndTokenPair ==
    (Resolved /\ ~IsServicePrincipal)
        => /\ TokenFieldPopulated
                => /\ "DATABRICKS_HOST" \in DOMAIN env_vars
                   /\ "DATABRICKS_TOKEN" \in DOMAIN env_vars
           /\ (~TokenFieldPopulated /\ databricks_token = "") => DOMAIN env_vars = {}

\* C11 as amended: with authentication_type personal_access_token (or absent) and
\* a non-empty token field the result holds DATABRICKS_TOKEN (the direct token if
\* one was passed, else personal_access_token, else token), and DATABRICKS_HOST
\* exactly when a host was supplied; with no token field and no direct token it is
\* empty.
C11_TokenAndOptionalHost ==
    (Resolved /\ ~IsServicePrincipal)
        => /\ TokenFieldPopulated
                => /\ "DATABRICKS_TOKEN" \in DOMAIN env_vars
                   /\ env_vars["DATABRICKS_TOKEN"] =
                        (IF databricks_token # "" THEN databricks_token
                         ELSE IF Get(db_config, "personal_access_token") # ""
                              THEN db_config["personal_access_token"]
                              ELSE db_config["token"])
                   /\ "DATABRICKS_HOST" \in DOMAIN env_vars <=> HostSupplied
           /\ (~TokenFieldPopulated /\ databricks_token = "") => DOMAIN env_vars = {}

C11_Witness ==
    /\ Resolved
    /\ db_config = DbConfig("personal_access_token", "", "tok-cfg", "", "", <<>>, <<>>)
    /\ databricks_host = <<>>
    /\ databricks_token = ""
    /\ DOMAIN env_vars = {"DATABRICKS_TOKEN"}

\* C12: with authentication_type service_principal the result is non-empty
\* exactly when client_id and secret are both non-empty, it then carries them,
\* and it never contains DATABRICKS_TOKEN, whatever token the config or the
\* caller supplies.
C12_PrincipalNeverDegrades ==
    (Resolved /\ IsServicePrincipal)
        => /\ DOMAIN env_vars # {} <=> PrincipalPopulated
           /\ "DATABRICKS_TOKEN" \notin DOMAIN env_vars
           /\ PrincipalPopulated
                => /\ env_vars["DATABRICKS_CLIENT_ID"] = db_config["client_id"]
                   /\ env_vars["DATABRICKS_CLIENT_SECRET"] = db_config["secret"]

C12_Witness ==
    /\ Resolved
    /\ IsServicePrincipal
    /\ Get(db_config, "client_id") # ""
    /\ Get(db_config, "secret") = ""
    /\ TokenFieldPopulated
    /\ DOMAIN env_vars = {}

\* C13 as stated: when both variants are fully populated, or neither is, the
\* result is empty.
C13_ExactlyOneVariant ==
    (Resolved /\ (TokenFieldPopulated <=> PrincipalPopulated)) => DOMAIN env_vars = {}

\* C13 as amended: resolution succeeds exactly when the variant selected by
\* authentication_type is fully populated (client_id and secret for
\* service_principal; otherwise a token, the direct token included); the fields
\* of the other variant are ignored, so a config with both variants populated
\* resolves to the selected one.
C13_SelectedVariantDecides ==
    Resolved
        => /\ DOMAIN env_vars # {}
                <=> IF IsServicePrincipal THEN PrincipalPopulated
                    ELSE TokenFieldPopulated \/ databricks_token # ""
           /\ "DATABRICKS_TOKEN" \in DOMAIN env_vars
                => (~IsServicePrincipal /\ "DATABRICKS_CLIENT_ID" \notin DOMAIN env_vars)

C13_Witness ==
    /\ Resolved
    /\ IsServicePrincipal
    /\ TokenFieldPopulated
    /\ PrincipalPopulated
    /\ databricks_token = ""
    /\ "DATABRICKS_CLIENT_ID" \in DOMAIN env_vars

\* C14: when credential resolution fails the invocation exits non-zero before
\* any other activity: no workspace directory is created, no clone is run, no CLI
\* is probed or executed and no download is started.
C14_AuthFailureStopsEverything ==
    (pc \notin {"m_parse", "m_auth"} /\ DOMAIN env_vars = {})
        => /\ Exited
           /\ exit_status > 0
           /\ created = <<>>
           /\ fs = {}
           /\ clone_runs = 0
           /\ clone_ret = "none"
           /\ cli_path = ""
           /\ attempts = <<>>
           /\ issued = <<>>
           /\ \A d \in DOMAIN rmtree_calls : rmtree_calls[d] = 0

C14_Witness ==
    /\ Exited
    /\ DOMAIN env_vars = {}
    /\ Get(db_config, "client_id") # ""
    /\ exit_status = 1

\* C16: a clone failure is fatal and not retried: the clone command is run at
\* most once; a non-zero exit, the 300 s timeout and any exception all make
\* execute_git_clone return False; the invocation then exits non-zero and no
\* strategy is started.
C16_CloneFailureFatal ==
    /\ clone_runs <= 1
    /\ \A outcome \in {"nonzero", "timeout", "exception"} :
         execute_git_clone(outcome) = "False"
    /\ clone_ret = "False"
        => /\ pc \in {"m_finally", "m_exit", "exited"}
           /\ work_dir = <<>>
           /\ cli_path = ""
           /\ attempts = <<>>
           /\ issued = <<>>
           /\ Exited => exit_status > 0

C16_Witness ==
    /\ Exited
    /\ clone_ret = "False"
    /\ clone_runs = 1
    /\ exit_status = 1
    /\ attempts = <<>>

\* Some connection-config argument is text that json.loads rejects.
MalformedBlob ==
    \/ databricks_connection_config.kind = "malformed"
    \/ git_connection_config.kind = "malformed"

\* C15 as stated: a malformed connection-config blob is fatal: the invocation
\* exits non-zero without cloning or running any strategy, also when a direct
\* token and host are passed.
C15_MalformedConfigFatal ==
    MalformedBlob
        => /\ clone_runs = 0
           /\ attempts = <<>>
           /\ issued = <<>>
           /\ Exited => exit_status > 0

\* C15 as amended: a malformed connection-config blob is read as an empty
\* config: a malformed Databricks blob leaves credential resolution to the
\* direct token alone, a malformed Git blob leaves the Git token to the --git_token
\* argument alone, and the invocation stops before the clone only when the
\* credentials cannot be resolved (or the workspace directory cannot be made).
C15_MalformedConfigIsEmpty ==
    pc # "m_parse"
        => /\ databricks_connection_config.kind = "malformed"
                => /\ db_config = EmptyDict
                   /\ pc # "m_auth" => (DOMAIN env_vars # {} <=> databricks_token # "")
                   /\ (Exited /\ databricks_token # "" /\ created # <<>>) => clone_runs = 1
           /\ git_connection_config.kind = "malformed"
                => /\ git_token \in GitTokens
                   /\ (Exited /\ DOMAIN env_vars # {} /\ created # <<>>) => clone_runs = 1

C15_Witness ==
    /\ Exited
    /\ databricks_connection_config.kind = "malformed"
    /\ git_connection_config.kind = "malformed"
    /\ databricks_token # ""
    /\ clone_ret = "True"
    /\ issued # <<>>
    /\ exit_status = 0

\* os.path.normpath on a path: a ".." segment removes the segment before it,
\* and the root has no parent.
RECURSIVE Normalize(_)
Normalize(p) ==
    IF Len(p) = 0 THEN <<>>
    ELSE LET front == Normalize(SubSeq(p, 1, Len(p) - 1))
             seg == p[Len(p)]
         IN  IF seg # ".." THEN Append(front, seg)
             ELSE IF Len(front) > 1 THEN SubSeq(front, 1, Len(front) - 1)
                  ELSE front

\* Directory dir is root or lies below it.
Inside(dir, root) ==
    LET d == Normalize(dir)
    IN  Len(d) >= Len(root) /\ SubSeq(d, 1, Len(root)) = root

\* C19: an absent descriptor is fatal: when the file named by --yaml_path is not
\* in the clone, the invocation exits non-zero and no strategy issues a bundle
\* command in the working directory resolved for it.
C19_AbsentDescriptorFatal ==
    descriptor_state # "present"
        => /\ \A i \in DOMAIN issued : issued[i].cwd # work_dir
           /\ Exited => exit_status > 0

\* C20: the working directory is always inside the workspace, for every
\* --yaml_path: the parent directory of the descriptor under the workspace root
\* when that directory exists, the workspace root otherwise.
C20_WorkDirInsideWorkspace ==
    work_dir # <<>>
        => /\ Inside(work_dir, TempDir)
           /\ work_dir = IF descriptor_state # "absent_dir"
                         THEN TempDir \o dirname(yaml_path)
                         ELSE TempDir

\* execute_bundle_validation is not running.
ValidationAtRest == v_pc \in {"v_idle", "v_done"}

\* C17: validation has no net effect on the platform: after any number of
\* calls of execute_bundle_validation the platform holds the jobs it held before
\* the first call; every test job created is deleted before the call returns.
C17_ValidationLeavesNoJob ==
    ValidationAtRest => platform_jobs = ExistingJobs

\* C18: for every descriptor lacking bundle or lacking targets,
\* execute_bundle_validation returns False.
C18_MissingSectionRejected ==
    (v_pc = "v_done" /\ ~({"bundle", "targets"} \subseteq descriptor.sections))
        => v_ret = "False"

\* String s begins with prefix.
StartsWith(s, prefix) == Len(s) >= Len(prefix) /\ SubSeq(s, 1, Len(prefix)) = prefix

\* String s with one leading https:// or http:// taken off, and nothing else.
StripScheme(s) ==
    IF StartsWith(s, HTTPS) THEN SubSeq(s, Len(HTTPS) + 1, Len(s))
    ELSE IF StartsWith(s, HTTP) THEN SubSeq(s, Len(HTTP) + 1, Len(s))
         ELSE s

\* C24: host normalization strips the scheme prefix and nothing else: the
\* DATABRICKS_HOST returned does not begin with http:// or https://, and equals
\* the host given with only a leading http:// or https:// removed.
C24_OnlySchemePrefixStripped ==
    (Resolved /\ Len(databricks_host) > 0)
        => /\ "DATABRICKS_HOST" \in DOMAIN env_vars
           /\ env_vars["DATABRICKS_HOST"] = StripScheme(databricks_host)
           /\ ~StartsWith(env_vars["DATABRICKS_HOST"], HTTPS)
           /\ ~StartsWith(env_vars["DATABRICKS_HOST"], HTTP)

\* The clone command has been built and run.
CloneRan == clone_runs > 0

\* C21: with a non-empty git token, the URL given to git clone embeds the
\* token, as oauth2:<token>@ for gitlab.com URLs and as <token>@ for github.com
\* and all other hosts, whatever the scheme of the URL.
C21_TokenInjected ==
    (CloneRan /\ git_token # "")
        => IF Contains(git_url, GitLab) /\ ~Contains(git_url, GitHub)
           THEN Contains(clone_url, <<"o", "a", "u", "t", "h", "2", ":", git_token, "@">>)
           ELSE Contains(clone_url, <<git_token, "@">>)

\* C22: with a non-empty git token, no message logged by execute_git_clone
\* contains the token.
C22_TokenNotLogged ==
    (CloneRan /\ git_token # "")
        => \A i \in DOMAIN clone_log : ~Contains(clone_log[i], <<git_token>>)

\* C23: the hardcoded databricks.yml is a last resort that never touches the
\* target: it is used only after the other strategy has failed, and no bundle
\* command is run on it (in the directory that holds it) with the credentials
\* of the target platform.
C23_FixtureNeverRunOnTarget ==
    \A i \in DOMAIN issued :
        issued[i].cwd = TempCliDir
            => /\ native_failure # "none"
               /\ DOMAIN issued[i].env = {}

\* C25: --timeout bounds the bundle operation: each strategy's bundle command is
\* cut off after the number of seconds passed as --timeout.
C25_TimeoutFlagBoundsCommand ==
    \A i \in DOMAIN issued : issued[i].timeout = timeout

\* C26: whenever execute_bundle_operation returns True, the bundle command that
\* exited 0 was run in work_dir; both strategies run their command in work_dir,
\* with the operation and the target environment they were given.
C26_SuccessInWorkDir ==
    /\ ebo_ret = "True"
        => \E i \in DOMAIN issued : issued[i].outcome = "rc0" /\ issued[i].cwd = work_dir
    /\ \A i \in DOMAIN issued :
         /\ issued[i].cwd = work_dir
         /\ issued[i].cmd[3] = operation
         /\ SubSeq(issued[i].cmd, 4, Len(issued[i].cmd)) = TargetArgs(target_env)

\* C27: execute_bundle_validation returns True only if the workspace
\* connectivity check answered 200 in that call; with no authentication
\* material, or a non-200 answer to the OAuth token request, it returns False.
C27_TrueOnlyWhenConnected ==
    (v_pc = "v_done" /\ v_ret = "True") => v_connected

\* C28: two concurrent invocations of git_clone_and_list.main never interfere
\* through the filesystem: while an invocation is reporting on the directory it
\* cloned, that directory is there and holds what this invocation cloned: no
\* other invocation has removed it or cloned into it.
C28_OwnWorkspace ==
    \A p \in DOMAIN l_pc :
        l_pc[p] = "l_report" => l_fs[l_dest[p]] = p

====
